---- MODULE Spec2Model ----
(***************************************************************************)
(* Practice logistics of sup-manage-app (src/app.py): attendance, session  *)
(* membership, the transport ledger with its per-user transport_count, and *)
(* the weighted lottery for return carriers.  Every route handler is one   *)
(* action; the request's form fields and the logged-in user are its        *)
(* inputs.  Database tables are the state.                                 *)
(***************************************************************************)
EXTENDS Integers, Sequences, FiniteSets, Bags, TLC

\* ---------------------------------------------------------------- bounds
NUsers == 3
NBoards == 2
NPractices == 1
MaxSessions == 2
MaxIds == 2

UserIds == 1..NUsers
BoardIds == 1..NBoards
PracticeIds == 1..NPractices

\* ------------------------------------------------------------ vocabulary
Roles == {"admin", "member", "guest"}
Statuses == {"unanswered", "present", "absent", "late_leave"}
Directions == {"to", "from"}
Locations == {"beach", "club"}
None == "None"
\* request.form.get(...) of an id field the form does not carry
NoId == 0
FormTexts == {None, "memo"}

Max(a, b) == IF a >= b THEN a ELSE b

\* request.form.getlist(...): a list of ids, possibly empty, possibly
\* repeating an id
IdLists(S) == UNION {[1..n -> S] : n \in 0..MaxIds}

VARIABLES
    users,              \* ids of the rows of table user
    role,               \* User.role
    transport_count,    \* User.transport_count
    board_location,     \* Board.location
    practices,          \* ids of the rows of table practice
    practice_location,  \* Practice.location
    sessions,           \* bag of PracticeSession rows, each with the bag of
                        \* user ids that session_members holds for it
    attendances,        \* set of Attendance rows
    transports,         \* bag of Transport rows
    issued,             \* history: session numbers ever given, per practice
    flashed,            \* the message the last request flashed
    inflight            \* the requests that run as several steps, per worker

vars == <<users, role, transport_count, board_location, practices,
          practice_location, sessions, attendances, transports, issued,
          flashed, inflight>>

\* the workers that serve requests side by side
Workers == {"w1", "w2"}

\* a worker that serves no request
Idle ==
    [pc |-> "idle", practice_id |-> NoId, user_id |-> NoId, board_id |-> NoId,
     direction |-> None, seen |-> <<>>, existing |-> {}]

\* flash(message, category); args carries the values formatted into it
Flash(category, message, args) ==
    [category |-> category, message |-> message, args |-> args]

One(row) == SetToBag({row})

\* a handler's early return: an error message and no commit
Refuse(message) ==
    /\ flashed' = Flash("error", message, <<>>)
    /\ UNCHANGED <<inflight, users, role, transport_count, board_location, practices,
                   practice_location, sessions, attendances, transports, issued>>

\* ------------------------------------------------------------ decorators
\* hasattr(current_user, 'role') and current_user.role == 'admin'
IsAdmin(caller) == role[caller] = "admin"

\* hasattr(current_user, 'role') and current_user.role == 'guest'
IsGuest(caller) == role[caller] = "guest"

\* @admin_required around the handler f
admin_required(caller, f) ==
    IF ~IsAdmin(caller) THEN Refuse("admin_required") ELSE f

\* @member_required around the handler f
member_required(caller, f) ==
    IF IsGuest(caller) THEN Refuse("guests_cannot") ELSE f

\* ------------------------------------------------------ transport ledger
TransportRow(practice_id, user_id, board_id, direction) ==
    [practice_id |-> practice_id, user_id |-> user_id,
     board_id |-> board_id, direction |-> direction]

\* Transport.query.filter_by(practice_id=, board_id=, direction=)
ExistingTransports(t, practice_id, board_id, direction) ==
    {r \in BagToSet(t) : /\ r.practice_id = practice_id
                         /\ r.board_id = board_id
                         /\ r.direction = direction}

\* a decrement that takes two
Decrement_ByTwo(c, user_id) ==
    IF user_id \in users THEN [c EXCEPT ![user_id] = Max(0, @ - 2)] ELSE c

\* old_user.transport_count = max(0, old_user.transport_count - 1)
Decrement(c, user_id) ==
    IF user_id \in users THEN [c EXCEPT ![user_id] = Max(0, @ - 1)] ELSE c

\* user.transport_count += 1
Increment(c, user_id) == [c EXCEPT ![user_id] = @ + 1]

\* Overwrite that forgets the old carrier's counter
Overwrite_NoDecrement(db, existing, user_id) ==
    [t |-> (db.t (-) One(existing))
             (+) One([existing EXCEPT !.user_id = user_id]),
     c |-> Increment(db.c, user_id)]

\* Overwrite that adjusts the counters and leaves the record with its carrier
Overwrite_NoRebind(db, existing, user_id) ==
    [t |-> db.t,
     c |-> Increment(Decrement(db.c, existing.user_id), user_id)]

\* the "existing" branch of assign_transport's loop body
Overwrite(db, existing, user_id) ==
    [t |-> (db.t (-) One(existing))
             (+) One([existing EXCEPT !.user_id = user_id]),
     c |-> Increment(Decrement(db.c, existing.user_id), user_id)]

\* the "else" branch of assign_transport's loop body
CreateTransport(db, practice_id, user_id, board_id, direction) ==
    [t |-> db.t (+) One(TransportRow(practice_id, user_id, board_id, direction)),
     c |-> Increment(db.c, user_id)]

\* the loop body without its lookup of the existing record
AssignOne_AlwaysCreate(db, practice_id, user_id, board_id, direction) ==
    {CreateTransport(db, practice_id, user_id, board_id, direction)}

\* one iteration of assign_transport's loop; .first() may return any match
AssignOne(db, practice_id, user_id, board_id, direction) ==
    LET found == ExistingTransports(db.t, practice_id, board_id, direction)
    IN  IF found # {}
        THEN {Overwrite(db, existing, user_id) : existing \in found}
        ELSE {CreateTransport(db, practice_id, user_id, board_id, direction)}

RECURSIVE AssignLoop(_, _, _, _, _)
AssignLoop(db, practice_id, user_id, board_ids, direction) ==
    IF board_ids = <<>>
    THEN {db}
    ELSE UNION {AssignLoop(step, practice_id, user_id, Tail(board_ids), direction) :
                  step \in AssignOne(db, practice_id, user_id, Head(board_ids), direction)}

assign_transport(practice_id, user_id, board_ids, direction) ==
    IF user_id = NoId \/ board_ids = <<>> THEN Refuse("select_carrier_and_boards")
    ELSE IF user_id \notin users THEN Refuse("user_not_found")
    ELSE \E db \in AssignLoop([t |-> transports, c |-> transport_count],
                              practice_id, user_id, board_ids, direction) :
            /\ transports' = db.t
            /\ transport_count' = db.c
            /\ flashed' = Flash("success", "transport_registered", <<>>)
            /\ UNCHANGED <<inflight, users, role, board_location, practices,
                           practice_location, sessions, attendances, issued>>

unassign_transport(row) ==
         /\ row \in BagToSet(transports)
         /\ transport_count' = Decrement(transport_count, row.user_id)
         /\ transports' = transports (-) One(row)
         /\ flashed' = Flash("success", "transport_deleted", <<>>)
         /\ UNCHANGED <<inflight, users, role, board_location, practices,
                        practice_location, sessions, attendances, issued>>

\* ------------------------------------- assign_transport, statement by statement
\* One request for one board, served by worker w in its own database session
\* while another worker serves another request.  seen holds the
\* transport_count each User object had when the session loaded it; existing
\* is the Transport object the lookup returned, with the user_id it had then.

\* lines 576-586: the form is read and the carrier is loaded
assign_transport_begin(w, practice_id, user_id, board_id, direction) ==
    /\ inflight[w].pc = "idle"
    /\ user_id \in users
    /\ inflight' = [inflight EXCEPT ![w] =
          [pc |-> "lookup", practice_id |-> practice_id, user_id |-> user_id,
           board_id |-> board_id, direction |-> direction,
           seen |-> (user_id :> transport_count[user_id]), existing |-> {}]]
    /\ UNCHANGED <<users, role, transport_count, board_location, practices,
                   practice_location, sessions, attendances, transports, issued,
                   flashed>>

\* lines 588-591: the lookup of the existing record, and of its carrier when
\* the session has not loaded that user yet
assign_transport_lookup(w) ==
    LET r     == inflight[w]
        found == ExistingTransports(transports, r.practice_id, r.board_id, r.direction)
    IN  /\ r.pc = "lookup"
        /\ IF found = {}
           THEN inflight' = [inflight EXCEPT ![w].pc = "commit"]
           ELSE \E existing \in found :
                   inflight' = [inflight EXCEPT
                      ![w].pc = "commit",
                      ![w].existing = {existing},
                      ![w].seen =
                          IF existing.user_id \in DOMAIN r.seen
                                \/ existing.user_id \notin users
                          THEN r.seen
                          ELSE r.seen @@ (existing.user_id
                                             :> transport_count[existing.user_id])]
        /\ UNCHANGED <<users, role, transport_count, board_location, practices,
                       practice_location, sessions, attendances, transports,
                       issued, flashed>>

\* the counts of the session's User objects after lines 593-600
LocalCounts(r) ==
    LET after_old ==
            IF r.existing = {} THEN r.seen
            ELSE LET old == (CHOOSE e \in r.existing : TRUE).user_id
                 IN  IF old \in DOMAIN r.seen
                     THEN [r.seen EXCEPT ![old] = Max(0, @ - 1)]
                     ELSE r.seen
    IN  [after_old EXCEPT ![r.user_id] = @ + 1]

\* the row of table transport that the object `existing` stands for: the
\* other worker may have rebound it since the lookup
RowNow(r) ==
    LET e == CHOOSE x \in r.existing : TRUE
    IN  IF e \in BagToSet(transports) THEN e
        ELSE CHOOSE x \in ExistingTransports(transports, e.practice_id,
                                             e.board_id, e.direction) : TRUE

\* lines 593-601: the flush writes the attributes that differ from their
\* loaded values, each as the value this session computed, and commits
assign_transport_commit(w) ==
    LET r      == inflight[w]
        counts == LocalCounts(r)
    IN  /\ r.pc = "commit"
        /\ transport_count' =
              [u \in UserIds |-> IF u \in DOMAIN counts /\ counts[u] # r.seen[u]
                                 THEN counts[u]
                                 ELSE transport_count[u]]
        /\ transports' =
              IF r.existing = {}
              THEN transports (+) One(TransportRow(r.practice_id, r.user_id,
                                                   r.board_id, r.direction))
              ELSE IF (CHOOSE e \in r.existing : TRUE).user_id = r.user_id
              THEN transports
              ELSE (transports (-) One(RowNow(r)))
                      (+) One([RowNow(r) EXCEPT !.user_id = r.user_id])
        /\ inflight' = [inflight EXCEPT ![w].pc = "done"]
        /\ flashed' = Flash("success", "transport_registered", <<>>)
        /\ UNCHANGED <<users, role, board_location, practices, practice_location,
                       sessions, attendances, issued>>

\* ------------------------------------------------------ attendance ledger
AttendanceRow(practice_id, user_id, status, reason, notes) ==
    [practice_id |-> practice_id, user_id |-> user_id, status |-> status,
     reason |-> reason, notes |-> notes]

\* answer_attendance without its check of the row's owner
answer_attendance_AnyCaller(caller, attendance, status, notes, reason) ==
    /\ attendance \in attendances
    /\ attendances' = (attendances \ {attendance}) \cup
           {[attendance EXCEPT !.status = status, !.notes = notes, !.reason = reason]}
    /\ flashed' = Flash("success", "attendance_updated", <<>>)
    /\ UNCHANGED <<inflight, users, role, transport_count, board_location, practices,
                   practice_location, sessions, transports, issued>>

answer_attendance(caller, attendance, status, notes, reason) ==
         /\ attendance \in attendances
         /\ IF attendance.user_id # caller
            THEN Refuse("no_permission")
            ELSE /\ attendances' = (attendances \ {attendance}) \cup
                        {[attendance EXCEPT !.status = status, !.notes = notes,
                                            !.reason = reason]}
                 /\ flashed' = Flash("success", "attendance_updated", <<>>)
                 /\ UNCHANGED <<inflight, users, role, transport_count, board_location,
                                practices, practice_location, sessions,
                                transports, issued>>

\* -------------------------------------------------------- weighted lottery
\* attendees = {att.user for att in practice.attendances if att.status == 'present'}
Attendees(practice_id) ==
    {a.user_id : a \in {x \in attendances : /\ x.practice_id = practice_id
                                            /\ x.status = "present"}}

\* {t.user for t in Transport.query.filter_by(practice_id=, direction=)}
Transporters(practice_id, direction) ==
    {r.user_id : r \in {x \in BagToSet(transports) : /\ x.practice_id = practice_id
                                                     /\ x.direction = direction}}

primary_pool(practice_id) ==
    (Attendees(practice_id) \ Transporters(practice_id, "to"))
        \ Transporters(practice_id, "from")

secondary_pool(practice_id) ==
    Transporters(practice_id, "to") \ Transporters(practice_id, "from")

\* final_pool: primary_pool when it is large enough, else the two lists joined
final_pool(practice_id, demand) ==
    IF Cardinality(primary_pool(practice_id)) >= demand
    THEN primary_pool(practice_id)
    ELSE primary_pool(practice_id) \cup secondary_pool(practice_id)

\* a len(final_pool) that always passes the test against the demand
final_pool_len_AlwaysEnough(practice_id, demand) == demand

\* len(final_pool): the joined list keeps an entry per list
final_pool_len(practice_id, demand) ==
    IF Cardinality(primary_pool(practice_id)) >= demand
    THEN Cardinality(primary_pool(practice_id))
    ELSE Cardinality(primary_pool(practice_id))
            + Cardinality(secondary_pool(practice_id))

\* the weight 1 / ((transport_count + 1) ** 2), as numerator over denominator
Weight(user_id) ==
    [num |-> 1, den |-> (transport_count[user_id] + 1) * (transport_count[user_id] + 1)]

\* random.choices(users, weights, k=1)[0]: any entry of positive weight
Choices(pool) == {u \in pool : Weight(u).num > 0 /\ Weight(u).den > 0}

\* a draw with replacement: the winner stays in the pool
Remaining_KeepWinner(pool, winner) == pool

\* a filter that empties pool_with_weights after the first draw
Remaining_Exhausted(pool, winner) == {}

\* pool_with_weights after the winner's entries are filtered out
Remaining(pool, winner) == pool \ {winner}

\* the draw loop: every list of winners some random source produces
RECURSIVE Draw(_, _)
Draw(pool, k) ==
    IF k = 0 \/ pool = {}
    THEN {<<>>}
    ELSE UNION {{<<winner>> \o rest : rest \in Draw(Remaining(pool, winner), k - 1)} :
                  winner \in Choices(pool)}

\* the persisting iteration with the increment outside its "if not existing"
PersistOne_AlwaysCount(db, practice_id, winner, board_id) ==
    IF ExistingTransports(db.t, practice_id, board_id, "from") = {}
    THEN CreateTransport(db, practice_id, winner, board_id, "from")
    ELSE [t |-> db.t, c |-> Increment(db.c, winner)]

\* the persisting iteration without its lookup of the existing record
PersistOne_AlwaysCreate(db, practice_id, winner, board_id) ==
    CreateTransport(db, practice_id, winner, board_id, "from")

\* one iteration of the loop that persists the winners
PersistOne(db, practice_id, winner, board_id) ==
    IF ExistingTransports(db.t, practice_id, board_id, "from") = {}
    THEN CreateTransport(db, practice_id, winner, board_id, "from")
    ELSE db

RECURSIVE PersistLoop(_, _, _, _, _)
PersistLoop(db, practice_id, winners, board_ids, i) ==
    IF i > Len(winners)
    THEN db
    ELSE PersistLoop(PersistOne(db, practice_id, winners[i], board_ids[i]),
                     practice_id, winners, board_ids, i + 1)

run_lottery(practice_id, board_ids) ==
         /\ practice_id \in practices
         /\ IF board_ids = <<>> THEN Refuse("no_boards_selected")
            ELSE IF final_pool_len(practice_id, Len(board_ids)) < Len(board_ids)
            THEN /\ flashed' = Flash("error", "not_enough_carriers",
                                     <<Len(board_ids),
                                       final_pool_len(practice_id, Len(board_ids))>>)
                 /\ UNCHANGED <<inflight, users, role, transport_count, board_location,
                                practices, practice_location, sessions,
                                attendances, transports, issued>>
            ELSE \E winners \in Draw(final_pool(practice_id, Len(board_ids)),
                                     Len(board_ids)) :
                    LET db == PersistLoop([t |-> transports, c |-> transport_count],
                                          practice_id, winners, board_ids, 1)
                    IN  /\ transports' = db.t
                        /\ transport_count' = db.c
                        /\ flashed' = Flash("success", "lottery_done", winners)
                        /\ UNCHANGED <<inflight, users, role, board_location, practices,
                                       practice_location, sessions, attendances,
                                       issued>>

\* ---------------------------------------------------------- session assigner
SessionRow(practice_id, session_number, members) ==
    [practice_id |-> practice_id, session_number |-> session_number,
     members |-> members]

\* practice.sessions, as a bag of rows
SessionsOf(practice_id) ==
    [r \in {x \in BagToSet(sessions) : x.practice_id = practice_id} |-> sessions[r]]

\* session_count + 1, with session_count = len(practice.sessions)
NextNumber(practice_id) == BagCardinality(SessionsOf(practice_id)) + 1

add_session(practice_id) ==
    /\ practice_id \in practices
    /\ BagCardinality(SessionsOf(practice_id)) < MaxSessions
    /\ sessions' = sessions (+) One(SessionRow(practice_id, NextNumber(practice_id),
                                                EmptyBag))
    /\ issued' = [issued EXCEPT ![practice_id] = @ \cup {NextNumber(practice_id)}]
    /\ flashed' = Flash("success", "session_added", <<NextNumber(practice_id)>>)
    /\ UNCHANGED <<inflight, users, role, transport_count, board_location, practices,
                   practice_location, attendances, transports>>

\* the loop without its "user not in session.members"
RECURSIVE AssignMembersLoop_NoMemberTest(_, _, _)
AssignMembersLoop_NoMemberTest(members, assigned, user_ids) ==
    IF user_ids = <<>>
    THEN [members |-> members, assigned |-> assigned]
    ELSE IF Head(user_ids) \in users
    THEN AssignMembersLoop_NoMemberTest(members (+) One(Head(user_ids)),
                                        Append(assigned, Head(user_ids)),
                                        Tail(user_ids))
    ELSE AssignMembersLoop_NoMemberTest(members, assigned, Tail(user_ids))

\* assign_member's loop: the members after it, and assigned_usernames
RECURSIVE AssignMembersLoop(_, _, _)
AssignMembersLoop(members, assigned, user_ids) ==
    IF user_ids = <<>>
    THEN [members |-> members, assigned |-> assigned]
    ELSE IF Head(user_ids) \in users /\ ~BagIn(Head(user_ids), members)
    THEN AssignMembersLoop(members (+) One(Head(user_ids)),
                           Append(assigned, Head(user_ids)), Tail(user_ids))
    ELSE AssignMembersLoop(members, assigned, Tail(user_ids))

\* found: the rows PracticeSession.query.get(session_id) resolves to
assign_member(user_ids, found) ==
    IF user_ids = <<>> THEN Refuse("no_members_selected")
    ELSE IF found = {} THEN Refuse("session_not_found")
    ELSE \E session \in found :
            LET done == AssignMembersLoop(session.members, <<>>, user_ids)
            IN  IF Len(done.assigned) > 0
                THEN /\ sessions' = (sessions (-) One(session))
                                      (+) One([session EXCEPT !.members = done.members])
                     /\ flashed' = Flash("success", "members_assigned",
                                         <<done.assigned, session.session_number>>)
                     /\ UNCHANGED <<inflight, users, role, transport_count, board_location,
                                    practices, practice_location, attendances,
                                    transports, issued>>
                ELSE /\ flashed' = Flash("info", "no_new_members", <<>>)
                     /\ UNCHANGED <<inflight, users, role, transport_count, board_location,
                                    practices, practice_location, sessions,
                                    attendances, transports, issued>>

unassign_member(session, user_id) ==
    /\ session \in BagToSet(sessions)
    /\ user_id \in users
    /\ IF BagIn(user_id, session.members)
       THEN /\ sessions' = (sessions (-) One(session))
                             (+) One([session EXCEPT !.members = @ (-) One(user_id)])
            /\ flashed' = Flash("success", "member_unassigned",
                                <<user_id, session.session_number>>)
            /\ UNCHANGED <<inflight, users, role, transport_count, board_location,
                           practices, practice_location, attendances,
                           transports, issued>>
       ELSE UNCHANGED vars

delete_session(session) ==
    /\ session \in BagToSet(sessions)
    /\ sessions' = sessions (-) One(session)
    /\ flashed' = Flash("success", "session_deleted", <<session.session_number>>)
    /\ UNCHANGED <<inflight, users, role, transport_count, board_location, practices,
                   practice_location, attendances, transports, issued>>

\* ---------------------------------------------------------- practice lifecycle
\* create_practice; target_users is what the filter on team and generations
\* finds, practice_id the primary key the insert is given
create_practice(practice_id, location, target_users) ==
    /\ practice_id \notin practices
    /\ IF location = None THEN Refuse("fill_all_fields")
       ELSE IF target_users = {}
       THEN /\ flashed' = Flash("warning", "no_target_users", <<>>)
            /\ UNCHANGED <<inflight, users, role, transport_count, board_location, practices,
                           practice_location, sessions, attendances, transports,
                           issued>>
       ELSE /\ practices' = practices \cup {practice_id}
            /\ practice_location' = [practice_location EXCEPT ![practice_id] = location]
            /\ attendances' = attendances \cup
                  {AttendanceRow(practice_id, u, "unanswered", None, None) :
                     u \in target_users}
            /\ flashed' = Flash("success", "practice_created",
                                <<Cardinality(target_users)>>)
            /\ UNCHANGED <<inflight, users, role, transport_count, board_location, sessions,
                           transports, issued>>

\* a delete_practice that gives the carriers of the deleted rows their
\* counts back
delete_practice_Decrementing(practice_id) ==
    /\ practice_id \in practices
    /\ practices' = practices \ {practice_id}
    /\ sessions' = [r \in {x \in BagToSet(sessions) : x.practice_id # practice_id}
                      |-> sessions[r]]
    /\ attendances' = {a \in attendances : a.practice_id # practice_id}
    /\ transports' = [r \in {x \in BagToSet(transports) : x.practice_id # practice_id}
                        |-> transports[r]]
    /\ transport_count' =
          [u \in UserIds |->
              Max(0, transport_count[u]
                       - BagCardinality([r \in {x \in BagToSet(transports) :
                                                  /\ x.practice_id = practice_id
                                                  /\ x.user_id = u}
                                           |-> transports[r]]))]
    /\ issued' = [issued EXCEPT ![practice_id] = {}]
    /\ flashed' = Flash("success", "practice_deleted", <<practice_id>>)
    /\ UNCHANGED <<inflight, users, role, board_location, practice_location>>

\* db.session.delete(practice_to_delete) with the three delete-orphan
\* cascades of Practice; a deleted session's session_members rows go with it
delete_practice(practice_id) ==
    /\ practice_id \in practices
    /\ practices' = practices \ {practice_id}
    /\ sessions' = [r \in {x \in BagToSet(sessions) : x.practice_id # practice_id}
                      |-> sessions[r]]
    /\ attendances' = {a \in attendances : a.practice_id # practice_id}
    /\ transports' = [r \in {x \in BagToSet(transports) : x.practice_id # practice_id}
                        |-> transports[r]]
    /\ issued' = [issued EXCEPT ![practice_id] = {}]
    /\ flashed' = Flash("success", "practice_deleted", <<practice_id>>)
    /\ UNCHANGED <<inflight, users, role, transport_count, board_location, practice_location>>

\* delete_user's loop over PracticeSession.query.all()
RECURSIVE RemoveFromSessionsLoop(_, _, _)
RemoveFromSessionsLoop(rows, done, user_id) ==
    IF rows = {} THEN done
    ELSE LET session == CHOOSE r \in rows : TRUE
             after   == IF BagIn(user_id, session.members)
                        THEN [session EXCEPT !.members = @ (-) One(user_id)]
                        ELSE session
         IN  RemoveFromSessionsLoop(rows \ {session},
                                    done (+) (after :> sessions[session]), user_id)

\* a delete_user whose Attendance query has lost its filter
delete_user_EveryAttendance(caller, user_id) ==
    IF caller = user_id THEN Refuse("cannot_delete_self")
    ELSE /\ user_id \in users
         /\ attendances' = {}
         /\ transports' = [r \in {x \in BagToSet(transports) : x.user_id # user_id}
                             |-> transports[r]]
         /\ sessions' = RemoveFromSessionsLoop(BagToSet(sessions), EmptyBag, user_id)
         /\ users' = users \ {user_id}
         /\ flashed' = Flash("success", "user_deleted", <<user_id>>)
         /\ UNCHANGED <<inflight, role, transport_count, board_location, practices,
                        practice_location, issued>>

delete_user(caller, user_id) ==
    IF caller = user_id THEN Refuse("cannot_delete_self")
    ELSE /\ user_id \in users
         /\ attendances' = {a \in attendances : a.user_id # user_id}
         /\ transports' = [r \in {x \in BagToSet(transports) : x.user_id # user_id}
                             |-> transports[r]]
         /\ sessions' = RemoveFromSessionsLoop(BagToSet(sessions), EmptyBag, user_id)
         /\ users' = users \ {user_id}
         /\ flashed' = Flash("success", "user_deleted", <<user_id>>)
         /\ UNCHANGED <<inflight, role, transport_count, board_location, practices,
                        practice_location, issued>>

\* ------------------------------------------------------------------ boards
update_board(board_id, new_location) ==
    /\ board_id \in BoardIds
    /\ board_location' = [board_location EXCEPT ![board_id] = new_location]
    /\ flashed' = Flash("success", "board_updated", <<>>)
    /\ UNCHANGED <<inflight, users, role, transport_count, practices, practice_location,
                   sessions, attendances, transports, issued>>

\* ------------------------------------------------- practice_detail's values
\* boards_at_location, had it been counted over boards_at_practice
boards_at_location_WithArriving(practice_id) ==
    Cardinality({b \in BoardIds :
        \/ board_location[b] = practice_location[practice_id]
        \/ \E t \in BagToSet(transports) :
              t.practice_id = practice_id /\ t.direction = "to" /\ t.board_id = b})

\* assignable_attendees that takes the present attendees only
assignable_attendees_PresentOnly(practice_id) ==
    {a.user_id : a \in {x \in attendances : /\ x.practice_id = practice_id
                                            /\ x.status = "present"}}

\* Board.query.filter_by(location=practice.location).count()
boards_at_location(practice_id) ==
    Cardinality({b \in BoardIds : board_location[b] = practice_location[practice_id]})

assignable_attendees(practice_id) ==
    {a.user_id : a \in {x \in attendances : /\ x.practice_id = practice_id
                                            /\ x.status \in {"present", "late_leave"}}}

assigned_user_ids(practice_id) ==
    UNION {BagToSet(r.members) : r \in BagToSet(SessionsOf(practice_id))}

unassigned_attendees(practice_id) ==
    {u \in assignable_attendees(practice_id) : u \notin assigned_user_ids(practice_id)}

\* the loop over practice.sessions that keeps the largest len(session.members)
RECURSIVE MaxMembersLoop(_, _)
MaxMembersLoop(rows, max_session_members) ==
    IF rows = {} THEN max_session_members
    ELSE LET session == CHOOSE r \in rows : TRUE
         IN  MaxMembersLoop(rows \ {session},
                 IF BagCardinality(session.members) > max_session_members
                 THEN BagCardinality(session.members)
                 ELSE max_session_members)

max_session_members(practice_id) ==
    MaxMembersLoop(BagToSet(SessionsOf(practice_id)), 0)

\* max_session_members - boards_at_location, without the max(0, ...)
required_transport_boards_Unclamped(practice_id) ==
    max_session_members(practice_id) - boards_at_location(practice_id)

required_transport_boards(practice_id) ==
    Max(0, max_session_members(practice_id) - boards_at_location(practice_id))

\* transported_to_board_ids = [t.board_id for t in transports_to]
transported_to_board_ids(practice_id) ==
    {t.board_id : t \in {x \in BagToSet(transports) :
        x.practice_id = practice_id /\ x.direction = "to"}}

boards_at_practice(practice_id) ==
    {b \in BoardIds : \/ board_location[b] = practice_location[practice_id]
                      \/ b \in transported_to_board_ids(practice_id)}

\* ------------------------------------------------------------ initial state
\* The first registered user is the administrator.  Practice 1 has been
\* created for every user, so each user has one Attendance row there, and
\* the users have answered as `answered` says; no session exists and
\* nothing has been carried yet.
InitWith(roles, answered) ==
    /\ users = UserIds
    /\ role = roles
    /\ transport_count = [u \in UserIds |-> 0]
    /\ board_location \in [BoardIds -> Locations]
    /\ practices = {1}
    /\ practice_location = [p \in PracticeIds |-> "beach"]
    /\ sessions = EmptyBag
    /\ attendances = {AttendanceRow(1, u, answered[u], None, None) : u \in UserIds}
    /\ transports = EmptyBag
    /\ issued = [p \in PracticeIds |-> {}]
    /\ flashed = Flash("none", "none", <<>>)
    /\ inflight = [w \in Workers |-> Idle]

MemberRoles == [u \in UserIds |-> IF u = 1 THEN "admin" ELSE "member"]

\* ------------------------------------------- transport ledger and lottery
InitTransport ==
    \E answered \in [UserIds -> {"present", "late_leave"}] :
        /\ InitWith(MemberRoles, answered)
        /\ board_location = [b \in BoardIds |-> "club"]

AssignTransport ==
    \E caller \in users :
        admin_required(caller,
            \E practice_id \in PracticeIds, user_id \in UserIds \cup {NoId},
               board_ids \in IdLists(BoardIds), direction \in Directions :
                assign_transport(practice_id, user_id, board_ids, direction))

UnassignTransport ==
    \E caller \in users :
        admin_required(caller,
            \E row \in BagToSet(transports) : unassign_transport(row))

RunLottery ==
    \E caller \in users :
        admin_required(caller,
            \E practice_id \in PracticeIds, board_ids \in IdLists(BoardIds) :
                run_lottery(practice_id, board_ids))

NextTransport == AssignTransport \/ UnassignTransport \/ RunLottery

SpecTransport == InitTransport /\ [][NextTransport]_vars

\* ---------------------------------------------------------- session assigner
\* user 1 has answered present, user 2 late_leave, user 3 absent
MixedAnswers ==
    [u \in UserIds |-> IF u = 1 THEN "present"
                       ELSE IF u = 2 THEN "late_leave"
                       ELSE IF u = 3 THEN "absent" ELSE "unanswered"]

InitSession ==
    /\ InitWith(MemberRoles, MixedAnswers)
    /\ board_location = [b \in BoardIds |-> "club"]

AddSession ==
    \E caller \in users :
        admin_required(caller, \E practice_id \in PracticeIds : add_session(practice_id))

AssignMember ==
    \E caller \in users :
        admin_required(caller,
            \E user_ids \in IdLists(UserIds),
               found \in {{}} \cup {{r} : r \in BagToSet(sessions)} :
                assign_member(user_ids, found))

UnassignMember ==
    \E caller \in users :
        admin_required(caller,
            \E session \in BagToSet(sessions), user_id \in UserIds :
                unassign_member(session, user_id))

DeleteSession ==
    \E caller \in users :
        admin_required(caller,
            \E session \in BagToSet(sessions) : delete_session(session))

\* a user answers their own row, as present or as absent
AnswerOwn ==
    \E a \in attendances :
        member_required(a.user_id,
            \E status \in {"present", "absent"} :
                answer_attendance(a.user_id, a, status, None, None))

NextSession ==
    AddSession \/ AssignMember \/ UnassignMember \/ DeleteSession \/ AnswerOwn

SpecSession == InitSession /\ [][NextSession]_vars

\* ------------------------------------------------------ capacity calculator
InitCapacity == InitWith(MemberRoles, MixedAnswers)

UpdateBoard ==
    \E caller \in users :
        member_required(caller,
            \E board_id \in BoardIds, new_location \in Locations :
                update_board(board_id, new_location))

AssignSingle ==
    \E caller \in users :
        admin_required(caller,
            \E user_id \in UserIds, session \in BagToSet(sessions) :
                assign_member(<<user_id>>, {session}))

NextCapacity == AddSession \/ AssignSingle \/ UpdateBoard

SpecCapacity == InitCapacity /\ [][NextCapacity]_vars

\* ------------------------------------- capacity and the boards due to arrive
\* session 1 of practice 1 has been added; the boards are anywhere
InitArrival ==
    /\ users = UserIds
    /\ role = MemberRoles
    /\ transport_count = [u \in UserIds |-> 0]
    /\ board_location \in [BoardIds -> Locations]
    /\ practices = {1}
    /\ practice_location = [p \in PracticeIds |-> "beach"]
    /\ sessions = One(SessionRow(1, 1, EmptyBag))
    /\ attendances = {AttendanceRow(1, u, MixedAnswers[u], None, None) : u \in UserIds}
    /\ transports = EmptyBag
    /\ issued = [p \in PracticeIds |-> IF p = 1 THEN {1} ELSE {}]
    /\ flashed = Flash("success", "session_added", <<1>>)
    /\ inflight = [w \in Workers |-> Idle]

AssignOutbound ==
    \E caller \in users :
        admin_required(caller,
            \E practice_id \in practices, user_id \in UserIds, board_id \in BoardIds :
                assign_transport(practice_id, user_id, <<board_id>>, "to"))

NextArrival == AssignSingle \/ AssignOutbound

SpecArrival == InitArrival /\ [][NextArrival]_vars

\* -------------------------------------------------------- attendance ledger
\* user 1 is the administrator, user 3 the guest account, the others members
MixedRoles ==
    [u \in UserIds |-> IF u = 1 THEN "admin" ELSE IF u = 3 THEN "guest" ELSE "member"]

InitAttendance ==
    /\ InitWith(MixedRoles, [u \in UserIds |-> "unanswered"])
    /\ board_location = [b \in BoardIds |-> "club"]

\* the answers the requests of this specification carry
AnswerStatuses == {"present", "absent"}

AnswerAttendance ==
    \E caller \in users :
        member_required(caller,
            \E a \in attendances, status \in AnswerStatuses, notes \in FormTexts,
               reason \in FormTexts :
                answer_attendance(caller, a, status, notes, reason))

NextAttendance == AnswerAttendance

SpecAttendance == InitAttendance /\ [][NextAttendance]_vars

\* ---------------------------------------------------------- practice cascade
MaxCount == 2

InitCascade ==
    /\ InitWith(MemberRoles, MixedAnswers)
    /\ board_location = [b \in BoardIds |-> "club"]

\* create_practice at the beach or without a location, for a team and
\* generations that every user or no user matches
CreatePractice ==
    \E caller \in users :
        admin_required(caller,
            \E practice_id \in PracticeIds \ practices,
               location \in {"beach", None}, target_users \in {{}, users} :
                create_practice(practice_id, location, target_users))

DeletePractice ==
    \E caller \in users :
        admin_required(caller,
            \E practice_id \in practices : delete_practice(practice_id))

\* assign_transport for one outbound board, while the carrier's count is
\* below MaxCount
AssignOutboundCapped ==
    \E caller \in users :
        admin_required(caller,
            \E practice_id \in practices, user_id \in users, board_id \in BoardIds :
                /\ transport_count[user_id] < MaxCount
                /\ assign_transport(practice_id, user_id, <<board_id>>, "to"))

NextCascade ==
    AddSession \/ AssignSingle \/ AssignOutboundCapped \/ DeletePractice \/ CreatePractice

SpecCascade == InitCascade /\ [][NextCascade]_vars

\* ------------------------------------------------------- attendance lifetime
InitRoster ==
    /\ InitWith(MemberRoles, [u \in UserIds |-> "unanswered"])
    /\ board_location = [b \in BoardIds |-> "club"]

\* create_practice for whatever users the team and generations select
CreatePracticeFor ==
    \E caller \in users :
        admin_required(caller,
            \E practice_id \in PracticeIds \ practices,
               location \in {"beach", None}, target_users \in SUBSET users :
                create_practice(practice_id, location, target_users))

DeleteUser ==
    \E caller \in users :
        admin_required(caller,
            \E user_id \in users : delete_user(caller, user_id))

NextRoster == CreatePracticeFor \/ DeletePractice \/ DeleteUser \/ AnswerOwn

SpecRoster == InitRoster /\ [][NextRoster]_vars

\* ------------------------------------------------- counters across deletions
InitCounter ==
    /\ InitWith(MemberRoles, [u \in UserIds |-> "present"])
    /\ board_location = [b \in BoardIds |-> "club"]

\* the requests below are sent while no transport_count exceeds MaxCount
AssignTransportCapped ==
    \E caller \in users :
        admin_required(caller,
            \E practice_id \in practices, user_id \in UserIds \cup {NoId},
               board_ids \in IdLists(BoardIds), direction \in Directions :
                /\ assign_transport(practice_id, user_id, board_ids, direction)
                /\ \A u \in users : transport_count'[u] <= MaxCount)

RunLotteryCapped ==
    \E caller \in users :
        admin_required(caller,
            \E practice_id \in PracticeIds, board_ids \in IdLists(BoardIds) :
                /\ run_lottery(practice_id, board_ids)
                /\ \A u \in users : transport_count'[u] <= MaxCount)

NextCounter ==
    \/ AssignTransportCapped
    \/ UnassignTransport
    \/ RunLotteryCapped
    \/ DeletePractice
    \/ CreatePractice

SpecCounter == InitCounter /\ [][NextCounter]_vars

\* ------------------------------------------------- two requests side by side
\* a ledger that assign_transport has filled with outbound rows, one row per
\* board at most and every count equal to the rows of the user
InitConcurrent ==
    \E carrier \in [BoardIds -> UserIds \cup {NoId}] :
        /\ users = UserIds
        /\ role = MemberRoles
        /\ transport_count =
              [u \in UserIds |-> Cardinality({b \in BoardIds : carrier[b] = u})]
        /\ board_location = [b \in BoardIds |-> "club"]
        /\ practices = {1}
        /\ practice_location = [p \in PracticeIds |-> "beach"]
        /\ sessions = EmptyBag
        /\ attendances = {AttendanceRow(1, u, "present", None, None) : u \in UserIds}
        /\ transports = SetToBag({TransportRow(1, carrier[b], b, "to") :
                                    b \in {x \in BoardIds : carrier[x] # NoId}})
        /\ issued = [p \in PracticeIds |-> {}]
        /\ flashed = Flash("none", "none", <<>>)
        /\ inflight = [w \in Workers |-> Idle]

Begin ==
    \E w \in Workers, caller \in users :
        /\ inflight[w].pc = "idle"
        /\ admin_required(caller,
              \E practice_id \in practices, user_id \in users,
                 board_id \in BoardIds, direction \in Directions :
                  assign_transport_begin(w, practice_id, user_id, board_id,
                                         direction))

Lookup == \E w \in Workers : assign_transport_lookup(w)

Commit == \E w \in Workers : assign_transport_commit(w)

NextConcurrent == Begin \/ Lookup \/ Commit

SpecConcurrent == InitConcurrent /\ [][NextConcurrent]_vars

\* ------------------------------------------------------------------ claims
\* Transport rows bound to a user, and rows of one (practice, board,
\* direction) key, counted with their multiplicity
RowsBoundTo(t, user_id) ==
    BagCardinality([r \in {x \in BagToSet(t) : x.user_id = user_id} |-> t[r]])

RowsOfKey(t, practice_id, board_id, direction) ==
    BagCardinality([r \in ExistingTransports(t, practice_id, board_id, direction) |-> t[r]])

\* C1: with assign_transport, unassign_transport and run_lottery only, every
\* user's transport_count equals the number of Transport rows bound to them.
C1_CounterEqualsBoundRows ==
    \A u \in users : transport_count[u] = RowsBoundTo(transports, u)

\* C1 witness: after a lottery, a user carries two boards, one of them drawn.
C1_Witness ==
    /\ flashed.message = "lottery_done"
    /\ \E u \in users :
          /\ transport_count[u] = 2
          /\ \E r \in BagToSet(transports) : r.user_id = u /\ r.direction = "to"
          /\ \E r \in BagToSet(transports) : r.user_id = u /\ r.direction = "from"

\* C2: there is at most one Transport row per (practice, board, direction).
C2_OneRowPerKey ==
    \A p \in PracticeIds, b \in BoardIds, d \in Directions :
        RowsOfKey(transports, p, b, d) <= 1

\* C2 witness: every key of practice 1 holds a row, after an assignment.
C2_Witness ==
    /\ flashed.message = "transport_registered"
    /\ \A b \in BoardIds, d \in Directions : RowsOfKey(transports, 1, b, d) = 1

\* what C3 says of one call of assign_transport for board b alone
C3_ReassignStep(p, b, d, new) ==
    LET found == ExistingTransports(transports, p, b, d)
        olds  == {r.user_id : r \in found}
        rest(t) == [r \in BagToSet(t) \ ExistingTransports(t, p, b, d) |-> t[r]]
    IN  (/\ found # {}
         /\ new \notin olds
         /\ assign_transport(p, new, <<b>>, d))
        => /\ ExistingTransports(transports', p, b, d) = {TransportRow(p, new, b, d)}
           /\ RowsOfKey(transports', p, b, d) = 1
           /\ \A old \in olds :
                 /\ transport_count'[old] = Max(0, transport_count[old] - 1)
                 /\ transport_count'[old] = transport_count[old] - 1
           /\ transport_count'[new] = transport_count[new] + 1
           /\ \A u \in users \ (olds \cup {new}) :
                 transport_count'[u] = transport_count[u]
           /\ rest(transports') = rest(transports)

\* C3: assign_transport for a key whose row is bound to another carrier
\* leaves exactly one row for the key, bound to the new carrier; the old
\* carrier's counter is one lower (floored at 0), the new carrier's one
\* higher, and every other counter and every other row is as before.
C3_ReassignMovesOneCount ==
    [][flashed'.message = "transport_registered"
          => \A p \in PracticeIds, b \in BoardIds, d \in Directions, new \in users :
                C3_ReassignStep(p, b, d, new)]_vars

\* C3 witness: after an assignment, one user holds a row, a second user has
\* count 0 and a third user holds another row of the same practice.
C3_Witness ==
    /\ flashed.message = "transport_registered"
    /\ \E r1, r2 \in BagToSet(transports) :
          /\ r1.user_id # r2.user_id
          /\ r1.practice_id = r2.practice_id
          /\ \E u \in users \ {r1.user_id, r2.user_id} : transport_count[u] = 0

\* to-direction rows of a practice, per board
C4_Arriving(t, p, b) ==
    \E r \in BagToSet(t) : r.practice_id = p /\ r.direction = "to" /\ r.board_id = b

\* C4 as claimed: a to-direction Transport added for a board stationed
\* elsewhere is counted in boards_at_location, so it lowers a positive
\* required_transport_boards by 1.
C4_ArrivingBoardLowersRequired ==
    [][\A p \in practices, b \in BoardIds :
          (/\ flashed'.message = "transport_registered"
           /\ board_location[b] # practice_location[p]
           /\ ~C4_Arriving(transports, p, b)
           /\ C4_Arriving(transports', p, b)
           /\ required_transport_boards(p) > 0)
          => required_transport_boards(p)' = required_transport_boards(p) - 1]_vars

\* C4 amended: boards_at_location counts the boards whose location is the
\* practice's location and nothing else: a change of the Transport rows
\* changes neither it nor required_transport_boards, and a board that is only
\* scheduled to arrive is in boards_at_practice without being counted.
C4_TransportsDoNotCount ==
    [][\A p \in practices :
          /\ transports' # transports
                => /\ boards_at_location(p)' = boards_at_location(p)
                   /\ required_transport_boards(p)' = required_transport_boards(p)
          /\ boards_at_location(p)' <= Cardinality(boards_at_practice(p)')
          /\ (\A b \in BoardIds : C4_Arriving(transports', p, b)
                                    => board_location'[b] = practice_location'[p])
                => boards_at_location(p)' = Cardinality(boards_at_practice(p)')]_vars

\* C4 witness: boards are still required although a board stationed
\* elsewhere is scheduled to arrive.
C4_Witness ==
    /\ flashed.message = "transport_registered"
    /\ required_transport_boards(1) > 0
    /\ \E b \in BoardIds :
          /\ board_location[b] # practice_location[1]
          /\ C4_Arriving(transports, 1, b)
          /\ b \in boards_at_practice(1)

\* C5: required_transport_boards = max(0, M - B) with M the largest member
\* count over the practice's sessions (0 without sessions) and B =
\* boards_at_location: never negative, 0 without sessions, at least every
\* session's shortfall and, when positive, exactly the shortfall of one.
C5_RequiredIsClampedShortfall ==
    \A p \in practices :
        LET R    == required_transport_boards(p)
            B    == boards_at_location(p)
            rows == {r \in BagToSet(sessions) : r.practice_id = p}
        IN  /\ R >= 0
            /\ rows = {} => R = 0
            /\ \A r \in rows : R >= BagCardinality(r.members) - B
            /\ R > 0 => \E r \in rows : R = BagCardinality(r.members) - B
            /\ (rows # {} /\ R = 0) => \A r \in rows : BagCardinality(r.members) <= B

\* C5 witness: a session of three with one board on site needs two boards.
C5_Witness ==
    /\ \E r \in BagToSet(sessions) :
          r.practice_id = 1 /\ Cardinality(BagToSet(r.members)) = 3
    /\ boards_at_location(1) = 1
    /\ required_transport_boards(1) = 2

\* C6 as claimed: no two sessions of a practice have the same number.
C6_SessionNumbersUnique ==
    \A p \in PracticeIds, n \in 1..(MaxSessions + 1) :
        BagCardinality([r \in {x \in BagToSet(sessions) :
                                 x.practice_id = p /\ x.session_number = n}
                          |-> sessions[r]]) <= 1

\* C7 as claimed: add_session never gives a number that an earlier session
\* of the practice had, also after that session was deleted.
C7_NumberNeverReused ==
    [][\A p \in PracticeIds :
          (flashed'.message = "session_added" /\ add_session(p))
          => flashed'.args[1] \notin issued[p]]_vars

\* users with an assignable answer, and users in some session of a practice
C8_Assignable(p) ==
    {u \in UserIds : \E a \in attendances :
        a.practice_id = p /\ a.user_id = u /\ a.status \in {"present", "late_leave"}}

C8_InSomeSession(ss, p, u) ==
    \E r \in BagToSet(ss) : r.practice_id = p /\ BagIn(u, r.members)

C8_SetEquation ==
    \A p \in practices, u \in UserIds :
        u \in unassigned_attendees(p)
            <=> (u \in C8_Assignable(p) /\ ~C8_InSomeSession(sessions, p, u))

\* the session the step changed, as it was before and as it is after
C8_Changed(before, after) ==
    /\ before \in BagToSet(sessions)
    /\ after.practice_id = before.practice_id
    /\ after.session_number = before.session_number
    /\ sessions' = (sessions (-) One(before)) (+) One(after)

C8_AssignRemoves ==
    flashed'.message = "members_assigned"
    => \A before \in BagToSet(sessions), after \in BagToSet(sessions') :
          C8_Changed(before, after)
          => \A u \in BagToSet(after.members) \ BagToSet(before.members) :
                u \notin unassigned_attendees(before.practice_id)'

\* C8 as claimed: unassigned_attendees = assignable minus the members of all
\* sessions; assigning removes a user from it and unassigning the user from
\* that session puts the user back.
C8_UnassignRestores ==
    /\ []C8_SetEquation
    /\ [][C8_AssignRemoves]_vars
    /\ [][flashed'.message = "member_unassigned"
          => \A before \in BagToSet(sessions), after \in BagToSet(sessions') :
                C8_Changed(before, after)
                => \A u \in (BagToSet(before.members) \ BagToSet(after.members))
                              \cap C8_Assignable(before.practice_id) :
                      u \in unassigned_attendees(before.practice_id)']_vars

\* C8 amended: the same, except that unassigning puts the user back exactly
\* when the user is a member of no other session of the practice.
C8_UnassignRestoresIfInNoOtherSession ==
    /\ []C8_SetEquation
    /\ [][C8_AssignRemoves]_vars
    /\ [][flashed'.message = "member_unassigned"
          => \A before \in BagToSet(sessions), after \in BagToSet(sessions') :
                C8_Changed(before, after)
                => \A u \in (BagToSet(before.members) \ BagToSet(after.members))
                              \cap C8_Assignable(before.practice_id) :
                      u \in unassigned_attendees(before.practice_id)'
                         <=> ~C8_InSomeSession(sessions', before.practice_id, u)]_vars

\* C8 witness: a user with an assignable answer has been unassigned from one
\* session and is still a member of another, so is not unassigned.
C8_Witness ==
    /\ flashed.message = "member_unassigned"
    /\ flashed.args[1] \in C8_Assignable(1)
    /\ C8_InSomeSession(sessions, 1, flashed.args[1])
    /\ flashed.args[1] \notin unassigned_attendees(1)
    /\ unassigned_attendees(1) # {}

\* the request answer_attendance as the caller sends it
C9_Request(caller, a, status, notes, reason) ==
    member_required(caller, answer_attendance(caller, a, status, notes, reason))

C9_Updated(a, status, notes, reason) ==
    /\ attendances' = (attendances \ {a}) \cup
           {AttendanceRow(a.practice_id, a.user_id, status, reason, notes)}
    /\ flashed'.category = "success"

C9_Refused ==
    /\ attendances' = attendances
    /\ flashed'.category = "error"

C10_Present(p) ==
    {u \in UserIds : \E a \in attendances :
        a.practice_id = p /\ a.user_id = u /\ a.status = "present"}

C10_Carriers(p, d) ==
    {u \in UserIds : \E r \in BagToSet(transports) :
        r.practice_id = p /\ r.direction = d /\ r.user_id = u}

C10_Eligible(p, demand) ==
    LET outbound  == C10_Carriers(p, "to")
        confirmed == C10_Carriers(p, "from")
        primary   == {u \in C10_Present(p) : u \notin outbound /\ u \notin confirmed}
        secondary == {u \in outbound : u \notin confirmed}
    IN  IF Cardinality(primary) >= demand THEN primary ELSE primary \cup secondary

C10_LotteryStep(p, board_ids) ==
    run_lottery(p, board_ids)
    => LET winners == flashed'.args
       IN  /\ \A i, j \in 1..Len(winners) : i # j => winners[i] # winners[j]
           /\ \A i \in 1..Len(winners) :
                 /\ winners[i] \in C10_Eligible(p, Len(board_ids))
                 /\ winners[i] \notin C10_Carriers(p, "from")

\* C10: the winners of one run_lottery are pairwise distinct members of
\* eligible_pool (primary_pool = present attendees minus outbound carriers
\* minus confirmed return carriers; secondary_pool = outbound carriers minus
\* confirmed return carriers; eligible_pool = primary_pool if it has at least
\* demand members, else both), and none already holds a from-direction row.
C10_WinnersDistinctAndEligible ==
    [][flashed'.message = "lottery_done"
          => \A p \in PracticeIds, board_ids \in IdLists(BoardIds) :
                C10_LotteryStep(p, board_ids)]_vars

\* C10 witness: a lottery drew two winners, one of them an outbound carrier
\* taken from secondary_pool.
C10_Witness ==
    /\ flashed.message = "lottery_done"
    /\ Len(flashed.args) = 2
    /\ \E i \in 1..2 : flashed.args[i] \in C10_Carriers(1, "to")
    /\ \E i \in 1..2 : flashed.args[i] \notin C10_Carriers(1, "to")

Min(a, b) == IF a <= b THEN a ELSE b

\* the draw loop of run_lottery on any pool and any demand
C11_DrawLength ==
    \A pool \in SUBSET users, k \in 0..(MaxIds + 1) :
        \A winners \in Draw(pool, k) : Len(winners) = Min(k, Cardinality(pool))

C11_LotteryStep(p, board_ids) ==
    run_lottery(p, board_ids)
    => /\ Len(flashed'.args) = Min(Len(board_ids),
                                   Cardinality(C10_Eligible(p, Len(board_ids))))
       /\ Len(flashed'.args) = Len(board_ids)

C12_LotteryStep(p, board_ids) ==
    (/\ run_lottery(p, board_ids)
     /\ Cardinality(C10_Eligible(p, Len(board_ids))) < Len(board_ids))
    => /\ flashed' = Flash("error", "not_enough_carriers",
                           <<Len(board_ids), Cardinality(C10_Eligible(p, Len(board_ids)))>>)
       /\ transports' = transports
       /\ transport_count' = transport_count
       /\ UNCHANGED <<inflight, users, role, board_location, practices, practice_location,
                      sessions, attendances, issued>>

\* C12: a run_lottery whose demand exceeds the size of eligible_pool reports
\* the needed and the available count and changes nothing: the Transport
\* rows and every transport_count are as before.
C12_InsufficientChangesNothing ==
    [][flashed'.message \in {"not_enough_carriers", "lottery_done"}
          => \A p \in PracticeIds, board_ids \in IdLists(BoardIds) :
                C12_LotteryStep(p, board_ids)]_vars

\* C12 witness: a lottery for two boards found one candidate and failed,
\* with rows in the ledger that it left alone.
C12_Witness ==
    /\ flashed = Flash("error", "not_enough_carriers", <<2, 1>>)
    /\ transports # EmptyBag
    /\ \E u \in users : transport_count[u] > 0

\* the i-th winner of a lottery is given a record: the i-th board has no
\* from-direction record before the run and is not named earlier in the list
C13_Created(p, board_ids, i) ==
    /\ ExistingTransports(transports, p, board_ids[i], "from") = {}
    /\ \A j \in 1..(i - 1) : board_ids[j] # board_ids[i]

\* C13 as claimed: after a run_lottery that does not fail, every winner has a
\* new from-direction record and a transport_count higher by exactly 1, and
\* every other user's transport_count is unchanged.
C13_EveryWinnerIsBoundAndCounted ==
    [][flashed'.message = "lottery_done"
          => \A p \in PracticeIds, board_ids \in IdLists(BoardIds) :
                run_lottery(p, board_ids)
                => LET winners == flashed'.args
                   IN  /\ \A i \in 1..Len(winners) :
                             /\ \E r \in BagToSet(transports') :
                                   /\ r.practice_id = p
                                   /\ r.user_id = winners[i]
                                   /\ r.direction = "from"
                                   /\ RowsBoundTo(transports', winners[i])
                                         = RowsBoundTo(transports, winners[i]) + 1
                             /\ transport_count'[winners[i]]
                                   = transport_count[winners[i]] + 1
                       /\ \A u \in users :
                             (\A i \in 1..Len(winners) : winners[i] # u)
                             => transport_count'[u] = transport_count[u]]_vars

C13_LotteryStep(p, board_ids) ==
    run_lottery(p, board_ids)
    => LET winners == flashed'.args
           created == {i \in 1..Len(winners) : C13_Created(p, board_ids, i)}
       IN  /\ transports' = transports (+)
                  SetToBag({TransportRow(p, winners[i], board_ids[i], "from") :
                              i \in created})
           /\ \A i \in 1..Len(winners) :
                 transport_count'[winners[i]]
                    = transport_count[winners[i]] + (IF i \in created THEN 1 ELSE 0)
           /\ \A u \in users :
                 (\A i \in 1..Len(winners) : winners[i] # u)
                 => transport_count'[u] = transport_count[u]

\* C13 amended: after a run_lottery that does not fail, exactly the winners
\* whose board had no from-direction record (before the run or from an
\* earlier position of the list) have a new from-direction record for that
\* board and a transport_count higher by exactly 1; every other winner and
\* every other user has no new record and an unchanged transport_count.
C13_CreatedWinnersAreBoundAndCounted ==
    [][flashed'.message = "lottery_done"
          => \A p \in PracticeIds, board_ids \in IdLists(BoardIds) :
                C13_LotteryStep(p, board_ids)]_vars

\* C13 witness: a lottery drew two winners; one holds a from-direction
\* record and a count of 1, the other holds nothing.
C13_Witness ==
    /\ flashed.message = "lottery_done"
    /\ Len(flashed.args) = 2
    /\ \E i, j \in 1..2 :
          /\ transport_count[flashed.args[i]] = 1
          /\ \E r \in BagToSet(transports) :
                r.user_id = flashed.args[i] /\ r.direction = "from"
          /\ transport_count[flashed.args[j]] = 0
          /\ \A r \in BagToSet(transports) : r.user_id # flashed.args[j]

\* the from-direction rows of one board, as a bag
C17_FromRows(t, p, b) ==
    [r \in ExistingTransports(t, p, b, "from") |-> t[r]]

C17_LotteryStep(p, board_ids) ==
    run_lottery(p, board_ids)
    => LET winners == flashed'.args
       IN  /\ \A b \in BoardIds :
                 ExistingTransports(transports, p, b, "from") # {}
                 => C17_FromRows(transports', p, b) = C17_FromRows(transports, p, b)
           /\ \A b \in BoardIds : RowsOfKey(transports', p, b, "from") <= 1
           /\ \A i \in 1..Len(winners) :
                 ExistingTransports(transports, p, board_ids[i], "from") # {}
                 => /\ transport_count'[winners[i]] = transport_count[winners[i]]
                    /\ RowsBoundTo(transports', winners[i])
                          = RowsBoundTo(transports, winners[i])

\* C17: run_lottery never rebinds or duplicates a from-direction Transport:
\* a board of the list that already has a from-direction record of the
\* practice keeps that record with its carrier, no board has a second
\* from-direction record after the run, and the winner drawn for such a board
\* gets neither a record nor an increment of transport_count.
C17_LotteryKeepsExistingReturns ==
    [][flashed'.message = "lottery_done"
          => \A p \in PracticeIds, board_ids \in IdLists(BoardIds) :
                C17_LotteryStep(p, board_ids)]_vars

\* C17 witness: after a lottery a winner holds nothing, while every board
\* has its from-direction record, bound to users who did not win.
C17_Witness ==
    /\ flashed.message = "lottery_done"
    /\ Len(flashed.args) = 1
    /\ transport_count[flashed.args[1]] = 0
    /\ \A b \in BoardIds :
          /\ RowsOfKey(transports, 1, b, "from") = 1
          /\ \A r \in ExistingTransports(transports, 1, b, "from") :
                r.user_id # flashed.args[1]

\* the rows of a table that belong to other practices than p
C14_OtherSessions(ss, p) ==
    [r \in {x \in BagToSet(ss) : x.practice_id # p} |-> ss[r]]

C14_OtherTransports(t, p) ==
    [r \in {x \in BagToSet(t) : x.practice_id # p} |-> t[r]]

C14_DeleteStep(p) ==
    delete_practice(p)
    => /\ p \notin practices'
       /\ \A r \in BagToSet(sessions') : r.practice_id # p
       /\ \A a \in attendances' : a.practice_id # p
       /\ \A r \in BagToSet(transports') : r.practice_id # p
       /\ C14_OtherSessions(sessions', p) = C14_OtherSessions(sessions, p)
       /\ {a \in attendances' : a.practice_id # p}
             = {a \in attendances : a.practice_id # p}
       /\ C14_OtherTransports(transports', p) = C14_OtherTransports(transports, p)
       /\ transport_count' = transport_count
       /\ UNCHANGED <<inflight, users, role, board_location>>

\* C14: delete_practice removes the practice with all of its sessions (and
\* their members), Attendance rows and Transport rows, leaves the rows of
\* every other practice alone and leaves every transport_count as it was:
\* the carriers of the deleted Transport rows are not decremented.
C14_DeleteCascadesAndKeepsCounts ==
    [][flashed'.message = "practice_deleted"
          => \A p \in practices : C14_DeleteStep(p)]_vars

\* C14 witness: a practice has just been deleted, no Transport row is left,
\* and two users still have the counts of the boards they were to carry.
C14_Witness ==
    /\ flashed.message = "practice_deleted"
    /\ practices = {}
    /\ sessions = EmptyBag /\ attendances = {} /\ transports = EmptyBag
    /\ \E u, v \in users : transport_count[u] = 2 /\ transport_count[v] = 1

\* the Attendance row of a (practice, user) pair exists
C15_HasRow(att, p, u) == \E a \in att : a.practice_id = p /\ a.user_id = u

\* C15 as claimed: an Attendance row stays in existence for as long as its
\* practice exists; only the deletion of that practice removes it.
C15_OnlyPracticeDeletionRemoves ==
    [][\A a \in attendances :
          ~C15_HasRow(attendances', a.practice_id, a.user_id)
          => a.practice_id \notin practices']_vars

\* C15 amended: an Attendance row stays in existence for as long as its
\* practice and its user exist; it is removed only by delete_practice of its
\* practice and by delete_user of its user, and delete_user removes every
\* Attendance row of that user while the practices stay.
C15_OnlyPracticeOrUserDeletionRemoves ==
    [][/\ \A a \in attendances :
             ~C15_HasRow(attendances', a.practice_id, a.user_id)
             => \/ a.practice_id \notin practices'
                \/ a.user_id \notin users'
       /\ flashed'.message = "user_deleted"
             => /\ practices' = practices
                /\ \A a \in attendances' : a.user_id \in users']_vars

\* C15 witness: a user has just been deleted; the practice exists and holds
\* Attendance rows, one of them answered, and none of the deleted user.
C15_Witness ==
    /\ flashed.message = "user_deleted"
    /\ 1 \in practices
    /\ \E a \in attendances : a.practice_id = 1 /\ a.status = "present"
    /\ ~C15_HasRow(attendances, 1, flashed.args[1])
    /\ flashed.args[1] \notin users

\* C18: in every state reached by assign_transport, unassign_transport,
\* run_lottery, delete_practice (and create_practice, so that the sequence
\* can go on after a deletion), every user's transport_count is at least 0
\* and at least the number of Transport rows bound to the user; so the
\* carrier of every row has a count of at least 1 and max(0, count - 1) is
\* count - 1 wherever the code decrements.
C18_CounterCoversBoundRows ==
    /\ \A u \in users :
          /\ transport_count[u] >= 0
          /\ transport_count[u] >= RowsBoundTo(transports, u)
    /\ \A r \in BagToSet(transports) :
          r.user_id \in users
          => /\ transport_count[r.user_id] >= 1
             /\ Decrement(transport_count, r.user_id)[r.user_id]
                   = transport_count[r.user_id] - 1

\* C18 witness: after a practice was deleted and created again, a row has
\* just been unassigned and a user has a count above the rows bound to them,
\* of which there is one.
C18_Witness ==
    /\ flashed.message = "transport_deleted"
    /\ \E u \in users :
          /\ RowsBoundTo(transports, u) = 1
          /\ transport_count[u] > 1
    /\ \E u \in users :
          /\ RowsBoundTo(transports, u) = 0
          /\ transport_count[u] = 1

\* no user id is twice among the members of a session
C16_MembersAreSets ==
    \A r \in BagToSet(sessions) :
        \A u \in BagToSet(r.members) : CopiesIn(u, r.members) = 1

\* assign_member for one session: the users of the list who exist and are
\* not yet members are added, once each, and only they are reported
C16_AssignStep(user_ids, session) ==
    assign_member(user_ids, {session})
    => LET new == ({user_ids[i] : i \in 1..Len(user_ids)} \cap users)
                     \ BagToSet(session.members)
       IN  IF new = {}
           THEN /\ sessions' = sessions
                /\ flashed' = Flash("info", "no_new_members", <<>>)
           ELSE /\ sessions' = (sessions (-) One(session))
                      (+) One([session EXCEPT !.members = @ (+) SetToBag(new)])
                /\ flashed'.message = "members_assigned"
                /\ Len(flashed'.args[1]) = Cardinality(new)
                /\ {flashed'.args[1][i] : i \in 1..Len(flashed'.args[1])} = new

\* unassign_member: a member is taken out of that session only, a
\* non-member's request changes nothing
C16_UnassignStep(session, user_id) ==
    unassign_member(session, user_id)
    => IF BagIn(user_id, session.members)
       THEN /\ sessions' = (sessions (-) One(session))
                  (+) One([session EXCEPT !.members = @ (-) One(user_id)])
            /\ ~BagIn(user_id, session.members (-) One(user_id))
       ELSE UNCHANGED vars

\* C16: session membership is a set.  After any sequence of assign_member
\* and unassign_member, with id lists that repeat an id or name a member, a
\* user is a member of a session at most once; an assign adds exactly the
\* listed users who were not members and reports exactly those, so assigning
\* a member changes nothing and reports nothing new; unassigning a
\* non-member changes nothing; a user may be in several sessions at once.
C16_MembershipIsASet ==
    /\ []C16_MembersAreSets
    /\ [][flashed'.message \in {"members_assigned", "no_new_members"}
             => \A user_ids \in IdLists(UserIds), session \in BagToSet(sessions) :
                   C16_AssignStep(user_ids, session)]_vars
    /\ [][\A session \in BagToSet(sessions), user_id \in UserIds :
             C16_UnassignStep(session, user_id)]_vars

\* C16 witness: a request that named only members has just been answered
\* with "no new members", and a user is a member of both sessions.
C16_Witness ==
    /\ flashed.message = "no_new_members"
    /\ \E r1, r2 \in BagToSet(sessions) :
          /\ r1.practice_id = r2.practice_id
          /\ r1.session_number # r2.session_number
          /\ \E u \in users : BagIn(u, r1.members) /\ BagIn(u, r2.members)
          /\ BagCardinality(r1.members) = 2

\* C19 as claimed: when two assign_transport requests for one (practice,
\* board, direction) key and different carriers have both committed, however
\* their lookups and writes interleaved, the key has exactly one Transport
\* row and each of the two carriers has a transport_count equal to the rows
\* bound to them, as after either serial order.
C19_RaceEndsAsSomeSerialOrder ==
    LET a == inflight["w1"]
        b == inflight["w2"]
    IN  (/\ a.pc = "done" /\ b.pc = "done"
         /\ a.practice_id = b.practice_id
         /\ a.board_id = b.board_id
         /\ a.direction = b.direction
         /\ a.user_id # b.user_id)
        => /\ RowsOfKey(transports, a.practice_id, a.board_id, a.direction) = 1
           /\ \A u \in {a.user_id, b.user_id} :
                 transport_count[u] = RowsBoundTo(transports, u)

====
